---- MODULE Spec2Model ----
(***************************************************************************)
(* A model of dandd.c: the 8x8 wall-placement puzzle, its seven constraint *)
(* predicates, the backtracking solver and the backtracking generator.     *)
(*                                                                         *)
(* A u64 grid value is modelled as the set of the slots whose bit is set:  *)
(* slot i is bit 63 - i of the word, so `m | 1 << (63 - i)` is m \cup {i}, *)
(* `a & b` is a \cap b, and count_set_bits is the cardinality.             *)
(***************************************************************************)
EXTENDS Integers, FiniteSets, Sequences, TLC

\* The board of the source: 8 rows, 8 columns, 64 slots.
Dim == 8
NumSlots == 64
LastSlot == 63
LastLine == 7

Slots == 0 .. (NumSlots - 1)
Lines == 0 .. (Dim - 1)

\* C integer division and remainder truncate toward zero.
CDiv(a, b) == IF a >= 0 THEN a \div b ELSE -((-a) \div b)
CMod(a, b) == a - b * CDiv(a, b)

Pos(r, c) == [row |-> r, col |-> c]

pos_from_slot(slot) == Pos(CDiv(slot, Dim), CMod(slot, Dim))

InBounds(pos) == ~(pos.row < 0 \/ pos.row >= Dim \/ pos.col < 0 \/ pos.col >= Dim)

slot_set(m, slot) == IF slot < 0 \/ slot >= NumSlots THEN m ELSE m \cup {slot}

slot_unset(m, slot) == IF slot < 0 \/ slot >= NumSlots THEN m ELSE m \ {slot}

\* The u64 slot_is_set returns: 0, or the bit of the slot.
slot_is_set_value(m, slot) == IF slot < 0 \/ slot >= NumSlots THEN {} ELSE m \cap {slot}

\* slot_is_set as its callers test it: whether the value is not 0.
slot_is_set(m, slot) == slot_is_set_value(m, slot) # {}

\* pos_set that tests the index of the position and not its row and column.
pos_set_by_index(m, pos) == slot_set(m, pos.row * Dim + pos.col)

pos_set(m, pos) == IF ~InBounds(pos) THEN m ELSE m \cup {pos.row * Dim + pos.col}

pos_unset(m, pos) == IF ~InBounds(pos) THEN m ELSE m \ {pos.row * Dim + pos.col}

\* The u64 pos_is_set returns: 0, or the bit of the position.
pos_is_set_value(m, pos) == IF ~InBounds(pos) THEN {} ELSE m \cap {pos.row * Dim + pos.col}

\* pos_is_set as its callers test it: whether the value is not 0.
pos_is_set(m, pos) == pos_is_set_value(m, pos) # {}

count_set_bits(n) == Cardinality(n)

\* The mask a chain of pos_set calls builds from 0: the OR of the bits of the positions.
MaskOf(ps) == UNION {pos_set({}, ps[i]) : i \in DOMAIN ps}

\* The positions the masks below are built around: the board and two cells beyond each edge.
\* A mask depends on its position alone, so each XxxMask(p) is XxxMaskAt(p), the mask as
\* the source builds it, looked up in a table of the positions of Around.
Around == {Pos(r, c) : r \in (-2) .. (Dim + 1), c \in (-2) .. (Dim + 1)}

(***************************************************************************)
(* Constraints.                                                            *)
(***************************************************************************)

check_doesnt_overlap(puzzle, solution) ==
    ~((solution \cap puzzle.treasures) # {} \/ (solution \cap puzzle.monsters) # {})

\* The top row mask shifted right by row * 8 bits.
count_walls_in_row(solution, row) ==
    LET row_mask == {i + row * Dim : i \in Lines} \cap Slots
    IN  count_set_bits(row_mask \cap solution)

\* The first column mask shifted right by col bits.
count_walls_in_col(solution, col) ==
    LET col_mask == {k * Dim + col : k \in Lines} \cap Slots
    IN  count_set_bits(col_mask \cap solution)

\* check_row_count that asks for the exact count at every column.
check_row_count_always_exact(puzzle, solution, slot) ==
    LET pos == pos_from_slot(slot)
        walls_in_row == count_walls_in_row(solution, pos.row)
    IN  IF walls_in_row # puzzle.row_wall_counts[pos.row] THEN FALSE ELSE TRUE

check_row_count(puzzle, solution, slot) ==
    LET pos == pos_from_slot(slot)
        walls_in_row == count_walls_in_row(solution, pos.row)
    IN  IF walls_in_row > puzzle.row_wall_counts[pos.row] THEN FALSE
        ELSE IF pos.col = LastLine /\ walls_in_row # puzzle.row_wall_counts[pos.row] THEN FALSE
        ELSE TRUE

\* check_col_count without the exact count in the last row.
check_col_count_never_exact(puzzle, solution, slot) ==
    LET pos == pos_from_slot(slot)
        walls_in_col == count_walls_in_col(solution, pos.col)
    IN  IF walls_in_col > puzzle.col_wall_counts[pos.col] THEN FALSE ELSE TRUE

check_col_count(puzzle, solution, slot) ==
    LET pos == pos_from_slot(slot)
        walls_in_col == count_walls_in_col(solution, pos.col)
    IN  IF walls_in_col > puzzle.col_wall_counts[pos.col] THEN FALSE
        ELSE IF pos.row = LastLine /\ walls_in_col # puzzle.col_wall_counts[pos.col] THEN FALSE
        ELSE TRUE

\* The four orthogonal neighbours of p that are on the board.
BorderMaskAt(p) ==
    MaskOf(<< Pos(p.row - 1, p.col), Pos(p.row + 1, p.col),
              Pos(p.row, p.col - 1), Pos(p.row, p.col + 1) >>)

BorderMaskTable == [p \in Around |-> BorderMaskAt(p)]

BorderMask(p) == IF p \in Around THEN BorderMaskTable[p] ELSE BorderMaskAt(p)

\* is_dead_end that only takes a cell with a wall on every side for a dead end.
is_dead_end_closed_only(puzzle, solution, p) ==
    IF ~InBounds(p) THEN FALSE
    ELSE LET slot_mask == pos_set({}, p)
             border_mask == BorderMask(p)
             border_walls == border_mask \cap solution
         IN  IF (slot_mask \cap solution) # {} THEN FALSE
             ELSE IF (slot_mask \cap puzzle.treasures) # {} \/ (slot_mask \cap puzzle.monsters) # {}
                  THEN FALSE
             ELSE count_set_bits(border_walls) >= count_set_bits(border_mask)

is_dead_end(puzzle, solution, p) ==
    IF ~InBounds(p) THEN FALSE
    ELSE LET slot_mask == pos_set({}, p)
             border_mask == BorderMask(p)
             border_walls == border_mask \cap solution
         IN  IF (slot_mask \cap solution) # {} THEN FALSE
             ELSE IF (slot_mask \cap puzzle.treasures) # {} \/ (slot_mask \cap puzzle.monsters) # {}
                  THEN FALSE
             ELSE count_set_bits(border_walls) >= count_set_bits(border_mask) - 1

\* check_dead_ends without the slot above.
check_dead_ends_not_above(puzzle, solution, slot) ==
    LET p == pos_from_slot(slot)
        left == Pos(p.row, p.col - 1)
    IN  IF is_dead_end(puzzle, solution, left) \/ is_dead_end(puzzle, solution, p)
        THEN FALSE
        ELSE TRUE

check_dead_ends(puzzle, solution, slot) ==
    LET p == pos_from_slot(slot)
        above == Pos(p.row - 1, p.col)
        left == Pos(p.row, p.col - 1)
    IN  IF is_dead_end(puzzle, solution, above) \/ is_dead_end(puzzle, solution, left)
           \/ is_dead_end(puzzle, solution, p)
        THEN FALSE
        ELSE TRUE

\* is_invalid_monster that asks for a wall on every neighbour.
is_invalid_monster_all_walls(puzzle, solution, p) ==
    IF ~InBounds(p) THEN FALSE
    ELSE LET slot_mask == pos_set({}, p)
             border_mask == BorderMask(p)
             border_walls == border_mask \cap solution
         IN  IF (slot_mask \cap puzzle.monsters) = {} THEN FALSE
             ELSE IF (border_mask \cap puzzle.monsters) # {} \/ (border_mask \cap puzzle.treasures) # {}
                  THEN TRUE
             ELSE count_set_bits(border_walls) # count_set_bits(border_mask)

is_invalid_monster(puzzle, solution, p) ==
    IF ~InBounds(p) THEN FALSE
    ELSE LET slot_mask == pos_set({}, p)
             border_mask == BorderMask(p)
             border_walls == border_mask \cap solution
         IN  IF (slot_mask \cap puzzle.monsters) = {} THEN FALSE
             ELSE IF (border_mask \cap puzzle.monsters) # {} \/ (border_mask \cap puzzle.treasures) # {}
                  THEN TRUE
             ELSE count_set_bits(border_walls) # count_set_bits(border_mask) - 1

\* check_monsters that looks at the left neighbour in every row.
check_monsters_left_in_every_row(puzzle, solution, slot) ==
    LET p == pos_from_slot(slot)
        above == Pos(p.row - 1, p.col)
        left == Pos(p.row, p.col - 1)
    IN  IF is_invalid_monster(puzzle, solution, above) THEN FALSE
        ELSE IF is_invalid_monster(puzzle, solution, left) THEN FALSE
        ELSE IF p.row = LastLine /\ p.col = LastLine /\ is_invalid_monster(puzzle, solution, p)
             THEN FALSE
        ELSE TRUE

check_monsters(puzzle, solution, slot) ==
    LET p == pos_from_slot(slot)
        above == Pos(p.row - 1, p.col)
        left == Pos(p.row, p.col - 1)
    IN  IF is_invalid_monster(puzzle, solution, above) THEN FALSE
        ELSE IF p.row = LastLine /\ is_invalid_monster(puzzle, solution, left) THEN FALSE
        ELSE IF p.row = LastLine /\ p.col = LastLine /\ is_invalid_monster(puzzle, solution, p)
             THEN FALSE
        ELSE TRUE

\* The 2x2 block whose bottom-right corner is p.
SpaceMaskAt(p) ==
    MaskOf(<< p, Pos(p.row, p.col - 1), Pos(p.row - 1, p.col), Pos(p.row - 1, p.col - 1) >>)

SpaceMaskTable == [p \in Around |-> SpaceMaskAt(p)]

SpaceMask(p) == IF p \in Around THEN SpaceMaskTable[p] ELSE SpaceMaskAt(p)

\* The 12 cells around that block.
SpaceNeighborsAt(p) ==
    MaskOf(<< Pos(p.row - 2, p.col - 2), Pos(p.row - 2, p.col - 1),
              Pos(p.row - 2, p.col), Pos(p.row - 2, p.col + 1),
              Pos(p.row - 1, p.col - 2), Pos(p.row - 1, p.col + 1),
              Pos(p.row, p.col - 2), Pos(p.row, p.col + 1),
              Pos(p.row + 1, p.col - 2), Pos(p.row + 1, p.col - 1),
              Pos(p.row + 1, p.col), Pos(p.row + 1, p.col + 1) >>)

SpaceNeighborsTable == [p \in Around |-> SpaceNeighborsAt(p)]

SpaceNeighbors(p) == IF p \in Around THEN SpaceNeighborsTable[p] ELSE SpaceNeighborsAt(p)

\* check_wide_space that lets every block pass.
check_wide_space_never(puzzle, solution, slot) == TRUE

check_wide_space(puzzle, solution, slot) ==
    LET p == pos_from_slot(slot)
        space_mask == SpaceMask(p)
    IN  IF count_set_bits(space_mask) = 4 /\ (space_mask \cap solution) = {}
           /\ (space_mask \cap puzzle.monsters) = {} /\ (space_mask \cap puzzle.treasures) = {}
        THEN (SpaceNeighbors(p) \cap puzzle.treasures) # {}
        ELSE TRUE

\* The 3x3 block around center.
RoomMaskAt(center) ==
    MaskOf(<< Pos(center.row - 1, center.col - 1), Pos(center.row - 1, center.col),
              Pos(center.row - 1, center.col + 1), Pos(center.row, center.col - 1),
              Pos(center.row, center.col), Pos(center.row, center.col + 1),
              Pos(center.row + 1, center.col - 1), Pos(center.row + 1, center.col),
              Pos(center.row + 1, center.col + 1) >>)

RoomMaskTable == [center \in Around |-> RoomMaskAt(center)]

RoomMask(center) == IF center \in Around THEN RoomMaskTable[center] ELSE RoomMaskAt(center)

\* The 12 cells that border the 3x3 block around center (its corners excluded).
WallsMaskAt(center) ==
    MaskOf(<< Pos(center.row - 2, center.col - 1), Pos(center.row - 2, center.col),
              Pos(center.row - 2, center.col + 1), Pos(center.row + 2, center.col - 1),
              Pos(center.row + 2, center.col), Pos(center.row + 2, center.col + 1),
              Pos(center.row - 1, center.col - 2), Pos(center.row, center.col - 2),
              Pos(center.row + 1, center.col - 2), Pos(center.row - 1, center.col + 2),
              Pos(center.row, center.col + 2), Pos(center.row + 1, center.col + 2) >>)

WallsMaskTable == [center \in Around |-> WallsMaskAt(center)]

WallsMask(center) == IF center \in Around THEN WallsMaskTable[center] ELSE WallsMaskAt(center)

\* is_invalid_treasure_room that never asks for exactly one opening.
is_invalid_treasure_room_never_strict(puzzle, solution, treasure, center, slot) ==
    LET room_mask == RoomMask(center)
        other_treasures == pos_unset(puzzle.treasures, treasure)
        walls_mask == WallsMask(center)
    IN  IF count_set_bits(room_mask) # 9 THEN TRUE
        ELSE IF (room_mask \cap puzzle.monsters) # {} \/ (room_mask \cap other_treasures) # {}
             THEN TRUE
        ELSE IF (room_mask \cap solution) # {} THEN TRUE
        ELSE IF (walls_mask \cap puzzle.monsters) # {} \/ (walls_mask \cap puzzle.treasures) # {}
             THEN TRUE
        ELSE count_set_bits(walls_mask \cap solution) = count_set_bits(walls_mask)

is_invalid_treasure_room(puzzle, solution, treasure, center, slot) ==
    LET room_mask == RoomMask(center)
        other_treasures == pos_unset(puzzle.treasures, treasure)
        walls_mask == WallsMask(center)
        checked_pos == pos_from_slot(slot)
    IN  IF count_set_bits(room_mask) # 9 THEN TRUE
        ELSE IF (room_mask \cap puzzle.monsters) # {} \/ (room_mask \cap other_treasures) # {}
             THEN TRUE
        ELSE IF (room_mask \cap solution) # {} THEN TRUE
        ELSE IF (walls_mask \cap puzzle.monsters) # {} \/ (walls_mask \cap puzzle.treasures) # {}
             THEN TRUE
        ELSE IF (checked_pos.row >= center.row + 2 /\ checked_pos.col >= center.col + 2)
                \/ (checked_pos.row = LastLine /\ checked_pos.col = LastLine)
             THEN count_set_bits(walls_mask \cap solution) # count_set_bits(walls_mask) - 1
        ELSE count_set_bits(walls_mask \cap solution) = count_set_bits(walls_mask)

is_invalid_treasure(puzzle, solution, treasure, slot) ==
    \A row \in (treasure.row - 1) .. (treasure.row + 1) :
        \A col \in (treasure.col - 1) .. (treasure.col + 1) :
            is_invalid_treasure_room(puzzle, solution, treasure, Pos(row, col), slot)

\* The double loop visits the positions whose bit of puzzle.treasures is set: the treasures.
check_treasure_rooms(puzzle, solution, slot) ==
    IF puzzle.treasures = {} THEN TRUE
    ELSE \A t \in puzzle.treasures :
            ~is_invalid_treasure(puzzle, solution, pos_from_slot(t), slot)

\* The assertions at the head of check_row_count and of check_col_count.
SlotAsserted(slot) == 0 <= slot /\ slot < NumSlots

\* The condition of solve's `if`: the seven predicates, in order.
SolveChecks(puzzle, solution, slot) ==
    /\ check_doesnt_overlap(puzzle, solution)
    /\ check_row_count(puzzle, solution, slot)
    /\ check_col_count(puzzle, solution, slot)
    /\ check_dead_ends(puzzle, solution, slot)
    /\ check_monsters(puzzle, solution, slot)
    /\ check_wide_space(puzzle, solution, slot)
    /\ check_treasure_rooms(puzzle, solution, slot)

(***************************************************************************)
(* State.                                                                  *)
(***************************************************************************)
VARIABLES
    pc,             \* where control is: "solve", "solve_done", "generate", "generate_ret", "generate_done"
    caller,         \* who called solve: "main" or "generate"
    puzzle,         \* solve: the puzzle record
    max_solutions,  \* solve: the capacity of the caller's array
    solutions,      \* solve: the caller's array, a function from the indices written to the grids
    solution_i,     \* solve: the count of solutions
    solution,       \* solve: the grid under construction
    slot,           \* solve: the cursor
    found,          \* history: every grid solve counted, in discovery order
    tried,          \* history: the slots whose wall value solve has tried since an earlier cell last changed
    max_puzzles,    \* generate: the capacity of the caller's array
    puzzles,        \* generate: the caller's array, a function from the indices written to the records
    puzzle_i,       \* generate: the count of records stored
    puzzle_tiles,   \* generate: the tile of every slot
    g_puzzle,       \* generate: its local `puzzle`, the monsters and treasures placed so far
    g_solution,     \* generate: its local `solution`, the walls placed so far
    g_slot,         \* generate: its local `slot`, the cursor
    checked,        \* a call of is_invalid_monster or of a pos_ operation: the position it is given
    invalid,        \* a call of is_invalid_monster: what it returned
    args,           \* a call of puzzle(): the PuzzleArgs it is given
    result          \* a call of the six grid operations: what each returned

solve_vars == << puzzle, max_solutions, solutions, solution_i, solution, slot, found, tried >>

generate_vars == << max_puzzles, puzzles, puzzle_i, puzzle_tiles, g_puzzle, g_solution, g_slot >>

probe_vars == << checked, invalid, args, result >>

vars == << pc, caller, solve_vars, generate_vars, probe_vars >>

MakePuzzle(rows, cols, monsters, treasures) ==
    [row_wall_counts |-> [i \in Lines |-> rows[i + 1]],
     col_wall_counts |-> [i \in Lines |-> cols[i + 1]],
     monsters |-> monsters, treasures |-> treasures]

ZeroCounts == << 0, 0, 0, 0, 0, 0, 0, 0 >>

(***************************************************************************)
(* solve: one action per iteration of the main loop.                       *)
(***************************************************************************)

\* The toggle at the head of the loop.
Toggle(sol, s) == IF ~slot_is_set(sol, s) THEN slot_set(sol, s) ELSE slot_unset(sol, s)

\* Backtrack as a do-while: the cursor steps back before the slot is tested.
RECURSIVE BacktrackStepsFirst(_, _)
BacktrackStepsFirst(sol, s) ==
    IF s - 1 >= 0 /\ ~slot_is_set(sol, s - 1) THEN BacktrackStepsFirst(sol, s - 1) ELSE s - 1

\* Backtrack with an `if` in place of the `while`: one step back at most.
BacktrackOneStep(sol, s) == IF s >= 0 /\ ~slot_is_set(sol, s) THEN s - 1 ELSE s

\* Backtrack that steps back once whatever the slot holds.
BacktrackAlwaysSteps(sol, s) == s - 1

\* The inner loop: back to the last set slot, or to -1.
RECURSIVE Backtrack(_, _)
Backtrack(sol, s) == IF s >= 0 /\ ~slot_is_set(sol, s) THEN Backtrack(sol, s - 1) ELSE s

InLoop(s) == 0 <= s /\ s < NumSlots

\* Record that fills the caller's array from its last index down.
RecordFromTheBack(sols, i, max, sol) ==
    IF i >= max THEN sols
    ELSE [k \in (DOMAIN sols) \cup {max - 1 - i} |-> IF k = max - 1 - i THEN sol ELSE sols[k]]

\* Record with the capacity test off by one.
RecordOffByOne(sols, i, max, sol) ==
    IF i > max THEN sols
    ELSE [k \in (DOMAIN sols) \cup {i} |-> IF k = i THEN sol ELSE sols[k]]

\* The store of a found solution into the caller's array.
Record(sols, i, max, sol) ==
    IF i >= max THEN sols
    ELSE [k \in (DOMAIN sols) \cup {i} |-> IF k = i THEN sol ELSE sols[k]]

\* The history of the toggle at slot s: the toggle changes what precedes the cells after
\* s, and makes s a wall if s was open.
NextTried(tr, sol, s) ==
    (tr \cap (0 .. (s - 1))) \cup (IF ~slot_is_set(sol, s) THEN {s} ELSE tr \cap {s})

\* The state of solve on entry.
SolveEntry(p, max) ==
    /\ puzzle = p
    /\ max_solutions = max
    /\ solutions = << >>
    /\ solution_i = 0
    /\ solution = {}
    /\ slot = 0
    /\ found = << >>
    /\ tried = {}

\* SolveStep without the test `slot < 63` before the increment.
SolveStepPastLast ==
    /\ pc = "solve"
    /\ InLoop(slot)
    /\ LET toggled == Toggle(solution, slot)
       IN  /\ solution' = toggled
           /\ slot' = IF SolveChecks(puzzle, toggled, slot) THEN slot + 1
                      ELSE Backtrack(toggled, slot)
    /\ tried' = NextTried(tried, solution, slot)
    /\ UNCHANGED << pc, caller, puzzle, max_solutions, solutions, solution_i, found >>
    /\ UNCHANGED generate_vars
    /\ UNCHANGED probe_vars

\* An iteration at a slot before the last: the toggle, then the next slot if the
\* constraints hold and the backtrack if one fails.
SolveStep ==
    /\ pc = "solve"
    /\ InLoop(slot)
    /\ slot < LastSlot
    /\ LET toggled == Toggle(solution, slot)
       IN  /\ solution' = toggled
           /\ slot' = IF SolveChecks(puzzle, toggled, slot) THEN slot + 1
                      ELSE Backtrack(toggled, slot)
    /\ tried' = NextTried(tried, solution, slot)
    /\ UNCHANGED << pc, caller, puzzle, max_solutions, solutions, solution_i, found >>
    /\ UNCHANGED generate_vars
    /\ UNCHANGED probe_vars

\* An iteration at the last slot where the constraints hold: a solution is counted, and
\* stored if there is room; then the backtrack.
SolveRecord ==
    /\ pc = "solve"
    /\ InLoop(slot)
    /\ ~(slot < LastSlot)
    /\ LET toggled == Toggle(solution, slot)
       IN  /\ SolveChecks(puzzle, toggled, slot)
           /\ solutions' = Record(solutions, solution_i, max_solutions, toggled)
           /\ solution_i' = solution_i + 1
           /\ found' = Append(found, toggled)
           /\ solution' = toggled
           /\ slot' = Backtrack(toggled, slot)
    /\ tried' = NextTried(tried, solution, slot)
    /\ UNCHANGED << pc, caller, puzzle, max_solutions >>
    /\ UNCHANGED generate_vars
    /\ UNCHANGED probe_vars

\* An iteration at the last slot where a constraint fails: the backtrack.
SolveReject ==
    /\ pc = "solve"
    /\ InLoop(slot)
    /\ ~(slot < LastSlot)
    /\ LET toggled == Toggle(solution, slot)
       IN  /\ ~SolveChecks(puzzle, toggled, slot)
           /\ solution' = toggled
           /\ slot' = Backtrack(toggled, slot)
    /\ tried' = NextTried(tried, solution, slot)
    /\ UNCHANGED << pc, caller, puzzle, max_solutions, solutions, solution_i, found >>
    /\ UNCHANGED generate_vars
    /\ UNCHANGED probe_vars

\* The loop ends and solve returns solution_i to its caller.
SolveReturn ==
    /\ pc = "solve"
    /\ ~InLoop(slot)
    /\ pc' = IF caller = "main" THEN "solve_done" ELSE "generate_ret"
    /\ UNCHANGED << caller, solve_vars, generate_vars >>
    /\ UNCHANGED probe_vars

(***************************************************************************)
(* generate: one action per iteration of the main loop, the call of solve  *)
(* and the return from it.                                                 *)
(***************************************************************************)
EMPTY == 0
WALL == 1
MONSTER == 2
TREASURE == 3

\* The capacity generate gives solve.
GenerateSolveCapacity == 128

\* The switch at the head of the loop: undo the tile of the slot and choose the next one.
NextTiles(tiles, s) ==
    [tiles EXCEPT ![s] = IF tiles[s] = TREASURE THEN MONSTER
                         ELSE IF tiles[s] = MONSTER THEN WALL
                         ELSE IF tiles[s] = WALL THEN EMPTY
                         ELSE TREASURE]

\* NextPuzzle that leaves the treasure bit set when the tile becomes a monster.
NextPuzzleKeepsTreasure(tiles, puz, s) ==
    IF tiles[s] = TREASURE
    THEN [puz EXCEPT !.monsters = slot_set(puz.monsters, s)]
    ELSE IF tiles[s] = MONSTER
    THEN [puz EXCEPT !.monsters = slot_unset(puz.monsters, s)]
    ELSE IF tiles[s] = WALL THEN puz
    ELSE [puz EXCEPT !.treasures = slot_set(puz.treasures, s)]

NextPuzzle(tiles, puz, s) ==
    IF tiles[s] = TREASURE
    THEN [puz EXCEPT !.treasures = slot_unset(puz.treasures, s),
                     !.monsters = slot_set(puz.monsters, s)]
    ELSE IF tiles[s] = MONSTER
    THEN [puz EXCEPT !.monsters = slot_unset(puz.monsters, s)]
    ELSE IF tiles[s] = WALL THEN puz
    ELSE [puz EXCEPT !.treasures = slot_set(puz.treasures, s)]

NextSolution(tiles, sol, s) ==
    IF tiles[s] = MONSTER THEN slot_set(sol, s)
    ELSE IF tiles[s] = WALL THEN slot_unset(sol, s)
    ELSE sol

\* GenerateChecks without the check of the monster at the slot itself.
GenerateChecksNotAtSlot(puz, sol, s) ==
    /\ check_doesnt_overlap(puz, sol)
    /\ check_dead_ends(puz, sol, s)
    /\ check_monsters(puz, sol, s)
    /\ check_wide_space(puz, sol, s)
    /\ check_treasure_rooms(puz, sol, s)

\* The condition of generate's `if`.
GenerateChecks(puz, sol, s) ==
    /\ ~is_invalid_monster(puz, sol, pos_from_slot(s))
    /\ check_doesnt_overlap(puz, sol)
    /\ check_dead_ends(puz, sol, s)
    /\ check_monsters(puz, sol, s)
    /\ check_wide_space(puz, sol, s)
    /\ check_treasure_rooms(puz, sol, s)

\* The inner loop: back to the last slot whose tile is not EMPTY, or to -1.
RECURSIVE BacktrackTiles(_, _)
BacktrackTiles(tiles, s) ==
    IF s >= 0 /\ tiles[s] = EMPTY THEN BacktrackTiles(tiles, s - 1) ELSE s

\* ValidPuzzle with the column counts taken from the rows.
ValidPuzzleRowsTwice(puz, sol) ==
    [row_wall_counts |-> [i \in Lines |-> count_walls_in_row(sol, i)],
     col_wall_counts |-> [i \in Lines |-> count_walls_in_row(sol, i)],
     monsters |-> puz.monsters, treasures |-> puz.treasures]

\* The record of a complete valid grid: its monsters and treasures, and the counts of its walls.
ValidPuzzle(puz, sol) ==
    [row_wall_counts |-> [i \in Lines |-> count_walls_in_row(sol, i)],
     col_wall_counts |-> [i \in Lines |-> count_walls_in_col(sol, i)],
     monsters |-> puz.monsters, treasures |-> puz.treasures]

\* The state of generate on entry.
GenerateEntry(max) ==
    /\ max_puzzles = max
    /\ puzzles = << >>
    /\ puzzle_i = 0
    /\ puzzle_tiles = [s \in Slots |-> EMPTY]
    /\ g_puzzle = MakePuzzle(ZeroCounts, ZeroCounts, {}, {})
    /\ g_solution = {}
    /\ g_slot = 0

\* An iteration at a slot before the last: the next tile, then the next slot if the
\* constraints hold and the backtrack if one fails.
GenerateStep ==
    /\ pc = "generate"
    /\ InLoop(g_slot)
    /\ g_slot < LastSlot
    /\ LET tiles == NextTiles(puzzle_tiles, g_slot)
           puz == NextPuzzle(puzzle_tiles, g_puzzle, g_slot)
           sol == NextSolution(puzzle_tiles, g_solution, g_slot)
       IN  /\ puzzle_tiles' = tiles
           /\ g_puzzle' = puz
           /\ g_solution' = sol
           /\ g_slot' = IF GenerateChecks(puz, sol, g_slot) THEN g_slot + 1
                        ELSE BacktrackTiles(tiles, g_slot)
    /\ UNCHANGED << pc, caller, solve_vars, max_puzzles, puzzles, puzzle_i >>
    /\ UNCHANGED probe_vars

\* An iteration at the last slot where a constraint fails: the backtrack.
GenerateReject ==
    /\ pc = "generate"
    /\ InLoop(g_slot)
    /\ ~(g_slot < LastSlot)
    /\ LET tiles == NextTiles(puzzle_tiles, g_slot)
           puz == NextPuzzle(puzzle_tiles, g_puzzle, g_slot)
           sol == NextSolution(puzzle_tiles, g_solution, g_slot)
       IN  /\ ~GenerateChecks(puz, sol, g_slot)
           /\ puzzle_tiles' = tiles
           /\ g_puzzle' = puz
           /\ g_solution' = sol
           /\ g_slot' = BacktrackTiles(tiles, g_slot)
    /\ UNCHANGED << pc, caller, solve_vars, max_puzzles, puzzles, puzzle_i >>
    /\ UNCHANGED probe_vars

\* An iteration at the last slot where the constraints hold: generate calls solve on the
\* record of the grid.
GenerateCallSolve ==
    /\ pc = "generate"
    /\ InLoop(g_slot)
    /\ ~(g_slot < LastSlot)
    /\ LET tiles == NextTiles(puzzle_tiles, g_slot)
           puz == NextPuzzle(puzzle_tiles, g_puzzle, g_slot)
           sol == NextSolution(puzzle_tiles, g_solution, g_slot)
       IN  /\ GenerateChecks(puz, sol, g_slot)
           /\ puzzle_tiles' = tiles
           /\ g_puzzle' = puz
           /\ g_solution' = sol
           /\ puzzle' = ValidPuzzle(puz, sol)
    /\ max_solutions' = GenerateSolveCapacity
    /\ solutions' = << >>
    /\ solution_i' = 0
    /\ solution' = {}
    /\ slot' = 0
    /\ found' = << >>
    /\ tried' = {}
    /\ pc' = "solve"
    /\ UNCHANGED << caller, max_puzzles, puzzles, puzzle_i, g_slot >>
    /\ UNCHANGED probe_vars

\* GenerateStore with the capacity test off by one.
GenerateStoreOffByOne ==
    /\ pc = "generate_ret"
    /\ puzzle_i <= max_puzzles
    /\ puzzles' = [k \in (DOMAIN puzzles) \cup {puzzle_i} |->
                      IF k = puzzle_i THEN [puzzle |-> puzzle, num_solutions |-> solution_i]
                      ELSE puzzles[k]]
    /\ puzzle_i' = puzzle_i + 1
    /\ g_slot' = BacktrackTiles(puzzle_tiles, g_slot)
    /\ pc' = "generate"
    /\ UNCHANGED << caller, solve_vars, max_puzzles, puzzle_tiles, g_puzzle, g_solution >>
    /\ UNCHANGED probe_vars

\* solve has returned and there is room: the record is stored, and generate backtracks.
\* (`puzzle` is the valid_puzzle that was passed to solve, solution_i what solve returned.)
GenerateStore ==
    /\ pc = "generate_ret"
    /\ puzzle_i < max_puzzles
    /\ puzzles' = [k \in (DOMAIN puzzles) \cup {puzzle_i} |->
                      IF k = puzzle_i THEN [puzzle |-> puzzle, num_solutions |-> solution_i]
                      ELSE puzzles[k]]
    /\ puzzle_i' = puzzle_i + 1
    /\ g_slot' = BacktrackTiles(puzzle_tiles, g_slot)
    /\ pc' = "generate"
    /\ UNCHANGED << caller, solve_vars, max_puzzles, puzzle_tiles, g_puzzle, g_solution >>
    /\ UNCHANGED probe_vars

\* generate returns puzzle_i: the array is full when a further record is found, or the loop ends.
GenerateReturn ==
    /\ \/ pc = "generate_ret" /\ ~(puzzle_i < max_puzzles)
       \/ pc = "generate" /\ ~InLoop(g_slot)
    /\ pc' = "generate_done"
    /\ UNCHANGED << caller, solve_vars, generate_vars >>
    /\ UNCHANGED probe_vars

\* A PuzzleArgs: the targets, the two arrays of positions (the entries given; those after
\* them are zero) and the two counts.
MakeArgs(rows, cols, monsters, monsters_count, treasures, treasures_count) ==
    [row_wall_counts |-> rows, col_wall_counts |-> cols,
     monsters |-> monsters, monsters_count |-> monsters_count,
     treasures |-> treasures, treasures_count |-> treasures_count]

NoArgs == MakeArgs([i \in Lines |-> 0], [i \in Lines |-> 0], << >>, 0, << >>, 0)

NoResult == [op \in {} |-> {}]

\* No call of is_invalid_monster, of puzzle() or of a grid operation on its own is under way.
NoProbe == checked = Pos(0, 0) /\ invalid = FALSE /\ args = NoArgs /\ result = NoResult

(***************************************************************************)
(* The runs of solve: main's puzzle and others, under small capacities.    *)
(***************************************************************************)

\* The puzzle of main: 1 solution.
MainPuzzle ==
    MakePuzzle(<< 1, 4, 3, 2, 4, 5, 3, 3 >>, << 1, 3, 6, 2, 4, 2, 3, 4 >>,
               pos_set({}, Pos(7, 5)), {})

\* Every target 0, no monster, no treasure.
ZeroPuzzle == MakePuzzle(ZeroCounts, ZeroCounts, {}, {})

\* Two monsters and three treasures: 1 solution.
WidePuzzle ==
    MakePuzzle(<< 5, 1, 2, 5, 6, 2, 4, 4 >>, << 2, 2, 2, 5, 3, 5, 5, 5 >>,
               {47, 63}, {4, 10, 42})

\* One monster: 3 solutions.
MultiPuzzle ==
    MakePuzzle(<< 1, 3, 4, 4, 3, 1, 6, 0 >>, << 0, 5, 1, 5, 1, 5, 3, 2 >>,
               {63}, {})

\* MultiPuzzle with one wall more asked of the last column than its rows allow: no solution.
OverfullPuzzle ==
    MakePuzzle(<< 1, 3, 4, 4, 3, 1, 6, 0 >>, << 0, 5, 1, 5, 1, 5, 3, 3 >>,
               {63}, {})

\* No monster, no treasure: 5 solutions.
FivePuzzle ==
    MakePuzzle(<< 1, 4, 3, 2, 3, 2, 4, 0 >>, << 0, 5, 2, 2, 4, 1, 5, 0 >>,
               {}, {})

\* The first record generate emits, four treasures: 1 solution.
RoomsPuzzle ==
    MakePuzzle(<< 2, 2, 2, 6, 2, 2, 2, 8 >>, << 2, 2, 1, 8, 2, 2, 1, 8 >>,
               {}, {0, 4, 32, 36})

\* One treasure, and counts that only fit grids whose room has several openings: no solution.
OpenRoomPuzzle ==
    MakePuzzle(<< 4, 4, 5, 0, 4, 3, 2, 2 >>, << 4, 3, 4, 0, 3, 1, 6, 3 >>,
               {}, {44})

SolvePuzzles ==
    {MainPuzzle, ZeroPuzzle, WidePuzzle, MultiPuzzle, OverfullPuzzle, FivePuzzle, RoomsPuzzle,
     OpenRoomPuzzle}

MaxCapacity == 2

InitSolve ==
    /\ pc = "solve"
    /\ caller = "main"
    /\ \E p \in SolvePuzzles : \E max \in 0 .. MaxCapacity : SolveEntry(p, max)
    /\ GenerateEntry(0)
    /\ NoProbe

NextSolve == SolveStep \/ SolveRecord \/ SolveReject \/ SolveReturn

SpecSolve == InitSolve /\ [][NextSolve]_vars

\* solve runs to its end: the program is sequential and nothing suspends it.
SpecSolveRuns == InitSolve /\ [][NextSolve]_vars /\ WF_vars(NextSolve)

(***************************************************************************)
(* The runs of generate, under small capacities.                           *)
(***************************************************************************)
MaxPuzzles == 1

InitGenerate ==
    /\ pc = "generate"
    /\ caller = "generate"
    /\ SolveEntry(ZeroPuzzle, 0)
    /\ \E max \in 0 .. MaxPuzzles : GenerateEntry(max)
    /\ NoProbe

NextGenerate ==
    \/ GenerateStep \/ GenerateReject \/ GenerateCallSolve
    \/ SolveStep \/ SolveRecord \/ SolveReject \/ SolveReturn
    \/ GenerateStore \/ GenerateReturn

SpecGenerate == InitGenerate /\ [][NextGenerate]_vars


(***************************************************************************)
(* Calls of is_invalid_monster on its own: a position, the walls around it *)
(* and the monsters and treasures on it and around it.                     *)
(***************************************************************************)
RowOf(s) == s \div Dim
ColOf(s) == s % Dim

Abs(n) == IF n < 0 THEN -n ELSE n

\* The slots of the board that are orthogonal neighbours of position p.
Neighbours(p) == {s \in Slots : Abs(RowOf(s) - p.row) + Abs(ColOf(s) - p.col) = 1}

\* The slot of a position of the board.
SlotOf(p) == p.row * Dim + p.col

\* Corners, edges, the inside of the board, and positions off the board.
ProbePositions ==
    {Pos(0, 0), Pos(0, 4), Pos(3, 0), Pos(3, 3), Pos(4, 7), Pos(7, 0), Pos(7, 5), Pos(7, 7),
     Pos(-1, 3), Pos(2, 8), Pos(8, 8)}

InitMonster ==
    /\ pc = "monster"
    /\ caller = "main"
    /\ checked \in ProbePositions
    /\ invalid = FALSE
    /\ args = NoArgs
    /\ result = NoResult
    /\ \E walls \in SUBSET Neighbours(checked) :
       \E here \in SUBSET ({SlotOf(checked)} \cap Slots) :
       \E ms \in {m \in SUBSET Neighbours(checked) : Cardinality(m) <= 1} :
       \E ts \in {t \in SUBSET Neighbours(checked) : Cardinality(t) <= 1} :
            /\ puzzle = MakePuzzle(ZeroCounts, ZeroCounts, here \cup ms, ts)
            /\ solution = walls
    /\ max_solutions = 0
    /\ solutions = << >>
    /\ solution_i = 0
    /\ slot = 0
    /\ found = << >>
    /\ tried = {}
    /\ GenerateEntry(0)

\* The call: is_invalid_monster(puzzle, solution, checked).
CallIsInvalidMonster ==
    /\ pc = "monster"
    /\ invalid' = is_invalid_monster(puzzle, solution, checked)
    /\ pc' = "monster_done"
    /\ UNCHANGED << caller, solve_vars, generate_vars, checked, args, result >>

NextMonster == CallIsInvalidMonster

SpecMonster == InitMonster /\ [][NextMonster]_vars

(***************************************************************************)
(* Calls of check_monsters on its own: one monster on any cell, walls on   *)
(* any of its neighbours, and any slot.                                    *)
(***************************************************************************)
InitCheckMonsters ==
    /\ pc = "check_monsters"
    /\ caller = "main"
    /\ \E m \in Slots :
            /\ checked = pos_from_slot(m)
            /\ puzzle = MakePuzzle(ZeroCounts, ZeroCounts, {m}, {})
            /\ solution \in SUBSET Neighbours(pos_from_slot(m))
    /\ slot \in Slots
    /\ max_solutions = 0
    /\ solutions = << >>
    /\ solution_i = 0
    /\ found = << >>
    /\ tried = {}
    /\ GenerateEntry(0)
    /\ invalid = FALSE
    /\ args = NoArgs
    /\ result = NoResult

\* The call: check_monsters(puzzle, solution, slot).
CallCheckMonsters ==
    /\ pc = "check_monsters"
    /\ result' = [check_monsters |-> check_monsters(puzzle, solution, slot)]
    /\ pc' = "check_monsters_done"
    /\ UNCHANGED << caller, solve_vars, generate_vars, checked, invalid, args >>

NextCheckMonsters == CallCheckMonsters

SpecCheckMonsters == InitCheckMonsters /\ [][NextCheckMonsters]_vars

(***************************************************************************)
(* Calls of puzzle() on its own: lists of positions, on and off the board, *)
(* and counts up to and beyond the length of the arrays.                   *)
(***************************************************************************)

\* The length of the arrays of a PuzzleArgs, which puzzle() asserts the counts against.
ArgsCapacity == 64

\* Entry i of an array of a PuzzleArgs: an entry that was not given is zero.
ArgsEntry(list, i) == IF i < Len(list) THEN list[i + 1] ELSE Pos(0, 0)

\* The loop `for (; i < count; i++) m = pos_set(m, list[i])`.
\* (A grid has at most 64 bits: the test on m is always true, and has m computed at each
\* step of the loop rather than at its end.)
RECURSIVE AccumulateFrom(_, _, _, _)
AccumulateFrom(list, count, i, m) ==
    IF i < count /\ count_set_bits(m) <= NumSlots
    THEN AccumulateFrom(list, count, i + 1, pos_set(m, ArgsEntry(list, i)))
    ELSE m

\* That loop from i = 0 and m = 0.
Accumulate(list, count) == AccumulateFrom(list, count, 0, {})

\* The record puzzle() returns.
PuzzleOf(a) ==
    [row_wall_counts |-> [i \in Lines |-> a.row_wall_counts[i]],
     col_wall_counts |-> [i \in Lines |-> a.col_wall_counts[i]],
     monsters |-> Accumulate(a.monsters, a.monsters_count),
     treasures |-> Accumulate(a.treasures, a.treasures_count)]

ArgsPositions == {Pos(0, 0), Pos(3, 4), Pos(7, 7), Pos(-1, 2)}

MaxArgs == 2

ArgsLists == UNION {[1 .. n -> ArgsPositions] : n \in 0 .. MaxArgs}

\* The counts tried with a list: its length, the capacity, and one beyond the capacity.
ArgsCounts(list) == {Len(list), ArgsCapacity, ArgsCapacity + 1}

InitPuzzle ==
    /\ pc = "puzzle"
    /\ caller = "main"
    /\ SolveEntry(ZeroPuzzle, 0)
    /\ GenerateEntry(0)
    /\ checked = Pos(0, 0)
    /\ invalid = FALSE
    /\ result = NoResult
    /\ \E ms \in ArgsLists : \E ts \in ArgsLists :
       \E mc \in ArgsCounts(ms) : \E tc \in ArgsCounts(ts) :
            args = MakeArgs(MainPuzzle.row_wall_counts, MainPuzzle.col_wall_counts, ms, mc, ts, tc)

\* puzzle(args) with counts the assertions accept: the record is built.
CallPuzzle ==
    /\ pc = "puzzle"
    /\ args.monsters_count <= ArgsCapacity
    /\ args.treasures_count <= ArgsCapacity
    /\ puzzle' = PuzzleOf(args)
    /\ pc' = "puzzle_done"
    /\ UNCHANGED << caller, max_solutions, solutions, solution_i, solution, slot, found, tried >>
    /\ UNCHANGED << generate_vars, probe_vars >>

\* puzzle(args) with a count beyond the capacity: an assertion fails and the program aborts.
PuzzleAssertFails ==
    /\ pc = "puzzle"
    /\ ~(args.monsters_count <= ArgsCapacity /\ args.treasures_count <= ArgsCapacity)
    /\ pc' = "aborted"
    /\ UNCHANGED << caller, solve_vars, generate_vars, probe_vars >>

NextPuzzleCall == CallPuzzle \/ PuzzleAssertFails

SpecPuzzle == InitPuzzle /\ [][NextPuzzleCall]_vars

(***************************************************************************)
(* Calls of the grid operations on their own: a grid, a slot and a         *)
(* position, in range and out of range.                                    *)
(***************************************************************************)

\* The empty grid, the full grid, one bit, every other bit, every third bit, an irregular grid.
ProbeGrids ==
    {{}, Slots, {LastSlot}, {i \in Slots : i % 2 = 0}, {i \in Slots : i % 3 = 1},
     {0, 9, 10, 11, 13, 18, 20, 23, 26, 34, 36, 40, 42, 44, 45, 46, 47, 50, 55, 56, 62}}

\* The slots of the board and some before and beyond them.
ProbeSlots == (0 - Dim - 1) .. (NumSlots + Dim + 1)

\* Positions off the board; the index row * 8 + col of some of them is a slot of the board.
OffBoardPositions ==
    {Pos(-1, 3), Pos(3, -1), Pos(Dim, 0), Pos(0, Dim), Pos(LastLine, Dim), Pos(1, -1),
     Pos(-1, Dim), Pos(Dim, Dim), Pos(-1, -1), Pos(2, NumSlots), Pos(-NumSlots, 5)}

InitGridOps ==
    /\ pc = "grid"
    /\ caller = "main"
    /\ puzzle = ZeroPuzzle
    /\ max_solutions = 0
    /\ solutions = << >>
    /\ solution_i = 0
    /\ solution \in ProbeGrids
    /\ slot \in ProbeSlots
    /\ found = << >>
    /\ tried = {}
    /\ GenerateEntry(0)
    /\ checked \in {pos_from_slot(slot)} \cup OffBoardPositions
    /\ invalid = FALSE
    /\ args = NoArgs
    /\ result = NoResult

\* The calls: the three slot operations on (solution, slot), the three position
\* operations on (solution, checked), and pos_from_slot(slot).
CallGridOps ==
    /\ pc = "grid"
    /\ result' = [slot_set |-> slot_set(solution, slot),
                  slot_unset |-> slot_unset(solution, slot),
                  slot_is_set |-> slot_is_set_value(solution, slot),
                  pos_set |-> pos_set(solution, checked),
                  pos_unset |-> pos_unset(solution, checked),
                  pos_is_set |-> pos_is_set_value(solution, checked),
                  pos_from_slot |-> pos_from_slot(slot)]
    /\ pc' = "grid_done"
    /\ UNCHANGED << caller, solve_vars, generate_vars, checked, invalid, args >>

NextGridOps == CallGridOps

SpecGridOps == InitGridOps /\ [][NextGridOps]_vars

(***************************************************************************)
(* The claims about solve.                                                 *)
(***************************************************************************)

\* The grids solve has counted.
Counted == {found[i] : i \in DOMAIN found}

\* Grid g with every cell of index > s open.
OpenAfter(g, s) == g \cap (0 .. s)

\* g passes the seven predicates at every slot s, evaluated on g with the cells after s open.
Passes(p, g) == \A s \in Slots : SolveChecks(p, OpenAfter(g, s), s)

\* The grids on cells 0 .. s - 1 that pass at every slot before s, from those of s - 1.
RECURSIVE PassingFrom(_, _, _)
PassingFrom(p, s, prefixes) ==
    IF s = NumSlots \/ prefixes = {} THEN prefixes
    ELSE PassingFrom(p, s + 1,
                     {g \in UNION {{q, q \cup {s}} : q \in prefixes} : SolveChecks(p, g, s)})

\* The set of the full grids g with Passes(p, g).
PassingGrids(p) == PassingFrom(p, 0, {{}})

Min(a, b) == IF a < b THEN a ELSE b

\* C1: when solve returns, the grids it counted are exactly the grids that pass the seven
\* predicates at every slot with the later cells open, each counted once.
C1_CountsExactlyThePassingGrids ==
    pc = "solve_done" =>
        LET passing == PassingGrids(puzzle)
        IN  /\ Counted = passing
            /\ \A g \in passing : Passes(puzzle, g)
            /\ \A i, j \in DOMAIN found : found[i] = found[j] => i = j
            /\ solution_i = Cardinality(passing)

C1_Witness ==
    /\ pc = "solve_done"
    /\ puzzle = FivePuzzle
    /\ Len(found) = 5

\* C2: every grid solve counted passes the seven predicates at every slot 0..63 when
\* they are evaluated on the complete grid.
\* (Stated of the state in which a grid has just been counted: `solution` is then the
\* last grid of `found`, and every counted grid is in that state once.)
C2_CountedPassOnCompleteGrid ==
    (found # << >> /\ solution = found[Len(found)]) =>
        \A s \in Slots : SolveChecks(puzzle, solution, s)

C2_Witness ==
    /\ puzzle = WidePuzzle
    /\ found # << >>
    /\ solution = found[Len(found)]

\* C3: every grid solve counted has exactly row_wall_counts[r] walls in each row r and
\* exactly col_wall_counts[c] walls in each column c.
C3_CountedHaveExactCounts ==
    \A g \in Counted :
        /\ \A r \in Lines : Cardinality({s \in g : RowOf(s) = r}) = puzzle.row_wall_counts[r]
        /\ \A c \in Lines : Cardinality({s \in g : ColOf(s) = c}) = puzzle.col_wall_counts[c]

C3_Witness ==
    /\ pc = "solve_done"
    /\ puzzle = MultiPuzzle
    /\ Len(found) = 3

\* C4: no index >= max_solutions is ever written; and when solve returns, the count is
\* the number of passing grids whatever max_solutions is, and the array holds the first
\* min(count, max_solutions) grids counted, in the order solve found them.
C4_CountExactStoreCapped ==
    /\ \A k \in DOMAIN solutions : 0 <= k /\ k < max_solutions
    /\ pc = "solve_done" =>
          /\ solution_i = Cardinality(PassingGrids(puzzle))
          /\ solution_i = Len(found)
          /\ DOMAIN solutions = 0 .. (Min(solution_i, max_solutions) - 1)
          /\ \A k \in DOMAIN solutions : solutions[k] = found[k + 1]

C4_Witness ==
    /\ pc = "solve_done"
    /\ puzzle = FivePuzzle
    /\ max_solutions = 1
    /\ solution_i = 5
    /\ DOMAIN solutions = {0}

\* C5 as stated: for the puzzle with every target 0 and no monster or treasure, solve
\* returns 1 and the solution is the all-open grid.
C5_ZeroPuzzleHasOneSolution ==
    (pc = "solve_done" /\ puzzle = ZeroPuzzle) => (solution_i = 1 /\ found = << {} >>)

\* C5 amended: for that puzzle solve returns 0 and stores nothing: the all-open grid
\* has a fully open 2x2 block and no treasure.
C5_ZeroPuzzleHasNoSolution ==
    (pc = "solve_done" /\ puzzle = ZeroPuzzle) =>
        (solution_i = 0 /\ found = << >> /\ DOMAIN solutions = {})

C5_Witness ==
    /\ pc = "solve_done"
    /\ puzzle = ZeroPuzzle
    /\ ~check_wide_space(puzzle, {}, Dim + 1)

\* The grid the iteration about to run checks, at slot `slot`.
Toggled == Toggle(solution, slot)

\* The cells after s near it: to its right, below-left, below, below-right, two rows below.
NearLater(s) == {s + 1, s + 2, s + Dim - 1, s + Dim, s + Dim + 1, s + 2 * Dim} \cap Slots

\* Values of the cells of index > s: walls on any of the near cells, or on all the cells.
Extensions(s) == (SUBSET NearLater(s)) \cup {(s + 1) .. LastSlot}

\* If predicate P is false on grid g at slot s, it is false at s on g with walls e added.
StaysFalse(P(_, _, _), p, g, s) == ~P(p, g, s) => \A e \in Extensions(s) : ~P(p, g \cup e, s)

check_doesnt_overlap_at(p, g, s) == check_doesnt_overlap(p, g)

\* C15: each of the seven predicates is monotone under solve's search: when it returns
\* false on the grid checked at slot s (cells after s open), it returns false at s on
\* every grid that agrees with it on the cells 0..s, whatever the cells of index > s are.
C15_PredicatesStayFalse ==
    (pc = "solve" /\ InLoop(slot)) =>
        /\ Toggled \cap ((slot + 1) .. LastSlot) = {}
        /\ StaysFalse(check_doesnt_overlap_at, puzzle, Toggled, slot)
        /\ StaysFalse(check_row_count, puzzle, Toggled, slot)
        /\ StaysFalse(check_col_count, puzzle, Toggled, slot)
        /\ StaysFalse(check_dead_ends, puzzle, Toggled, slot)
        /\ StaysFalse(check_monsters, puzzle, Toggled, slot)
        /\ StaysFalse(check_wide_space, puzzle, Toggled, slot)
        /\ StaysFalse(check_treasure_rooms, puzzle, Toggled, slot)

\* A dead end found with the cell below it still open, and a treasure whose rooms are all
\* invalid before the last slot.
C15_Witness ==
    /\ pc = "solve"
    /\ InLoop(slot)
    /\ slot < LastSlot - Dim
    /\ puzzle = WidePuzzle
    /\ ~check_dead_ends(puzzle, Toggled, slot)
    /\ ~check_treasure_rooms(puzzle, Toggled, slot)

\* C17: every time solve advances into a slot from the previous slot, the cell of that
\* slot is open and the toggle that follows makes it a wall; and an iteration tries the
\* open value of a cell (the cell is a wall at the head of the loop) only after the wall
\* value has been tried with the same earlier cells, and with every later cell open
\* again.
C17_WallThenOpen ==
    [][(pc = "solve" /\ InLoop(slot)) =>
          /\ slot' = slot + 1 =>
                /\ ~slot_is_set(solution', slot')
                /\ Toggle(solution', slot') = solution' \cup {slot'}
          /\ slot_is_set(solution, slot) =>
                /\ slot \in tried
                /\ solution \cap ((slot + 1) .. LastSlot) = {}]_vars

\* The open value of a cell of the second row is about to be tried, after a search that
\* counted a grid below it.
C17_Witness ==
    /\ pc = "solve"
    /\ puzzle = FivePuzzle
    /\ found # << >>
    /\ slot \in Dim .. (2 * Dim - 1)
    /\ slot_is_set(solution, slot)
    /\ slot \in tried

\* The place of the state (grid, slot) in the search: per cell, 1 for a wall and 2 for an
\* open cell before the cursor (branches taken: the wall first, the open value second),
\* 0 or 1 at the cursor for a cell still open or already a wall, 3 after the cursor.
SearchKey(sol, s) ==
    [c \in Slots |-> IF c < s THEN (IF c \in sol THEN 1 ELSE 2)
                     ELSE IF c = s THEN (IF c \in sol THEN 1 ELSE 0)
                     ELSE 3]

\* Key a comes before key b: a is less at the first cell where they differ.
KeyBefore(a, b) ==
    LET differ == {c \in Slots : a[c] # b[c]}
    IN  /\ differ # {}
        /\ LET first == CHOOSE c \in differ : \A d \in differ : c <= d
           IN  a[first] < b[first]

\* C18: solve terminates on every puzzle record: the states (grid, slot) at the head of
\* the loop never repeat (each iteration moves the state strictly forward in the order
\* of the search), and the loop eventually exits with slot = -1.
C18_SolveTerminates ==
    /\ [][(pc = "solve" /\ InLoop(slot)) =>
              /\ KeyBefore(SearchKey(solution, slot), SearchKey(solution', slot'))
              /\ slot' < NumSlots]_vars
    /\ <>(pc = "solve_done" /\ slot = -1 /\ solution = {})

\* solve has returned after counting grids and backtracking past slot 0.
C18_Witness ==
    /\ pc = "solve_done"
    /\ puzzle = MultiPuzzle
    /\ Len(found) = 3
    /\ slot = -1

\* C22: throughout solve the cursor stays within -1..63; the predicates are only called
\* in an iteration of the loop, with a slot of 0..63, so that the assertions of
\* check_row_count and check_col_count hold; and at every head of the loop the cells of
\* index > slot are open.
C22_CursorInRangeLaterCellsOpen ==
    pc \in {"solve", "solve_done"} =>
        /\ slot \in (-1) .. 63
        /\ InLoop(slot) => (slot \in 0 .. 63 /\ SlotAsserted(slot))
        /\ \A c \in solution : c <= slot
        /\ pc = "solve_done" => slot = -1

\* The head of an iteration at the last slot, where an increment would leave the board,
\* with walls placed in the last row.
C22_Witness ==
    /\ pc = "solve"
    /\ puzzle = MainPuzzle
    /\ slot = 63
    /\ \E c \in solution : RowOf(c) = 7

\* The u64 of a grid, as its four 16-bit words, the most significant first: slot s is
\* bit 63 - s of the u64, which is bit 15 - s % 16 of word s \div 16.
RECURSIVE SumOfBits(_)
SumOfBits(cells) ==
    IF cells = {} THEN 0
    ELSE LET c == CHOOSE x \in cells : TRUE
         IN  2 ^ (15 - (c % 16)) + SumOfBits(cells \ {c})

GridWords(g) == [w \in 0 .. 3 |-> SumOfBits({c \in g : c \div 16 = w})]

\* The u64 of grid a is greater than the u64 of grid b.
GridGreater(a, b) ==
    LET wa == GridWords(a)
        wb == GridWords(b)
    IN  \E w \in 0 .. 3 : wa[w] > wb[w] /\ \A v \in 0 .. (w - 1) : wa[v] = wb[v]

\* C23: solve finds its solutions in strictly decreasing order of their u64 value, so the
\* sequence it stores is strictly decreasing and holds no grid twice.
C23_FoundInDecreasingOrder ==
    /\ \A i, j \in DOMAIN found : i < j => GridGreater(found[i], found[j])
    /\ \A i, j \in DOMAIN solutions :
          /\ i < j => GridGreater(solutions[i], solutions[j])
          /\ i # j => solutions[i] # solutions[j]

\* Five grids found and the first two of them stored.
C23_Witness ==
    /\ pc = "solve_done"
    /\ puzzle = FivePuzzle
    /\ Len(found) = 5
    /\ DOMAIN solutions = {0, 1}
    /\ GridGreater(solutions[0], solutions[1])

(***************************************************************************)
(* The claims about monsters, wide spaces and treasure rooms.              *)
(***************************************************************************)

\* The position checked holds a monster.
ProbedMonster == InBounds(checked) /\ SlotOf(checked) \in puzzle.monsters

\* No neighbour of the position checked is a monster or a treasure.
ProbedAlone == Neighbours(checked) \cap (puzzle.monsters \cup puzzle.treasures) = {}

\* C6 as stated: a monster is accepted exactly when every neighbour on the board is a
\* wall and none of them is a monster or a treasure.
C6_MonsterValidIffWalledIn ==
    (pc = "monster_done" /\ ProbedMonster) =>
        (~invalid <=> (Neighbours(checked) \subseteq solution /\ ProbedAlone))

\* C6 amended: a monster is accepted exactly when one and only one of its neighbours on
\* the board is not a wall (walls = neighbours - 1) and none of them is a monster or a
\* treasure; is_invalid_monster returns true for a monster in every other configuration.
C6_MonsterValidIffOneOpening ==
    (pc = "monster_done" /\ ProbedMonster) =>
        (~invalid <=> (Cardinality(Neighbours(checked) \ solution) = 1 /\ ProbedAlone))

C6_Witness ==
    /\ pc = "monster_done"
    /\ ProbedMonster
    /\ ~invalid
    /\ Cardinality(Neighbours(checked)) = 4
    /\ Cardinality(Neighbours(checked) \cap solution) = 3

\* The slot at which C16 has check_monsters examine the monster at position m.
ExaminingSlot(m) ==
    IF m.row < 7 THEN (m.row + 1) * 8 + m.col
    ELSE IF m.col < 7 THEN 7 * 8 + m.col + 1
    ELSE 63

\* C16: check_monsters examines the monster at (r, c) at one slot and no other, the slot
\* of (r+1, c) for r < 7, of (7, c+1) for r = 7 and c < 7, and 63 for (7, 7): at that slot
\* it returns whether the monster is valid, at every other slot it returns true whether
\* the monster is valid or not; and no neighbour of the monster has an index beyond
\* that slot.
C16_MonsterExaminedAtOneSlot ==
    pc = "check_monsters_done" =>
        /\ slot = ExaminingSlot(checked) =>
              result.check_monsters = ~is_invalid_monster(puzzle, solution, checked)
        /\ slot # ExaminingSlot(checked) => result.check_monsters = TRUE
        /\ \A n \in Neighbours(checked) : n <= ExaminingSlot(checked)

\* A monster of the last row, examined as the left neighbour and found invalid.
C16_Witness ==
    /\ pc = "check_monsters_done"
    /\ checked = Pos(7, 3)
    /\ slot = 60
    /\ solution = {51}
    /\ result.check_monsters = FALSE

\* The grid that has just been counted, if one has.
JustCounted == found # << >> /\ solution = found[Len(found)]

\* The cells of grid g that hold no wall, no monster and no treasure.
OpenCells(p, g) == Slots \ (g \cup p.monsters \cup p.treasures)

\* The neighbours of cell c on the board that are not walls of grid g.
Exits(g, c) == Neighbours(pos_from_slot(c)) \ g

\* C19: in every grid solve counts, no open cell (no wall, monster or treasure) of the
\* 64 is a dead end: every open cell has at least two neighbours on the board that are
\* not walls.
C19_NoDeadEndAnywhere ==
    JustCounted => \A c \in OpenCells(puzzle, solution) : Cardinality(Exits(solution, c)) >= 2

\* A counted grid with a corridor: an open cell with exactly two exits, in the last row
\* or the last column, where a cell is last examined as the left or the above neighbour.
C19_Witness ==
    /\ JustCounted
    /\ puzzle = MainPuzzle
    /\ \E c \in OpenCells(puzzle, solution) :
            /\ Cardinality(Exits(solution, c)) = 2
            /\ (RowOf(c) = LastLine \/ ColOf(c) = LastLine)

\* The cells of the 3x3 room around center, and the cells of the board that border it.
RoomCells(center) ==
    {s \in Slots : Abs(RowOf(s) - center.row) <= 1 /\ Abs(ColOf(s) - center.col) <= 1}

RingCells(center) ==
    {s \in Slots : \/ Abs(RowOf(s) - center.row) = 2 /\ Abs(ColOf(s) - center.col) <= 1
                   \/ Abs(ColOf(s) - center.col) = 2 /\ Abs(RowOf(s) - center.row) <= 1}

\* The room around center is a valid room of treasure t in grid g: on the board, free
\* of walls, monsters and other treasures, no monster or treasure on its border, and
\* exactly one cell of its border not a wall.
ValidRoom(p, g, t, center) ==
    /\ Cardinality(RoomCells(center)) = 9
    /\ RoomCells(center) \cap (g \cup p.monsters \cup (p.treasures \ {t})) = {}
    /\ RingCells(center) \cap (p.monsters \cup p.treasures) = {}
    /\ Cardinality(RingCells(center) \ g) = 1

\* The 9 candidate centres of the rooms of treasure t.
Centres(t) == {Pos(r, c) : r \in (RowOf(t) - 1) .. (RowOf(t) + 1), c \in (ColOf(t) - 1) .. (ColOf(t) + 1)}

\* The 2x2 blocks of the board.
Blocks == {{r * Dim + c, r * Dim + c + 1, (r + 1) * Dim + c, (r + 1) * Dim + c + 1} :
              r \in 0 .. (Dim - 2), c \in 0 .. (Dim - 2)}

\* C7: in every grid solve counts, every 2x2 block of open cells (no wall, monster or
\* treasure) lies inside the 3x3 interior of a valid room of some treasure.
C7_OpenBlocksLieInTreasureRooms ==
    JustCounted =>
        \A b \in Blocks :
            b \cap (solution \cup puzzle.monsters \cup puzzle.treasures) = {} =>
                \E t \in puzzle.treasures : \E center \in Centres(t) :
                    ValidRoom(puzzle, solution, t, center) /\ b \subseteq RoomCells(center)

\* C8: in every grid solve counts, every treasure has exactly one valid room among its 9
\* candidate centres.
C8_TreasureHasExactlyOneValidRoom ==
    JustCounted =>
        \A t \in puzzle.treasures :
            Cardinality({center \in Centres(t) : ValidRoom(puzzle, solution, t, center)}) = 1

C8_Witness ==
    /\ JustCounted
    /\ puzzle = RoomsPuzzle
    /\ Cardinality(puzzle.treasures) = 4

(***************************************************************************)
(* The claims about generate.                                              *)
(***************************************************************************)

\* C9: when solve returns to generate, it has counted at least one grid and the grid the
\* record was derived from is among the grids it counted; and every record stored has a
\* solution count >= 1.
C9_GeneratedGridSolvesItsRecord ==
    /\ pc = "generate_ret" =>
          /\ puzzle = ValidPuzzle(g_puzzle, g_solution)
          /\ solution_i >= 1
          /\ g_solution \in Counted
    /\ \A k \in DOMAIN puzzles : puzzles[k].num_solutions >= 1

C9_Witness ==
    /\ pc = "generate"
    /\ puzzle_i = 1
    /\ puzzles[0].puzzle = RoomsPuzzle
    /\ puzzles[0].num_solutions = 1

\* The array of generate is full: the max_puzzles-th record has been stored.
GenerateFull == max_puzzles > 0 /\ puzzle_i = max_puzzles

\* C10: once the max_puzzles-th record has been stored, generate assigns no further
\* tile, evaluates no further constraint and invokes solve no further.
C10_NothingFurtherOnceFull ==
    [][GenerateFull =>
          /\ puzzle_tiles' = puzzle_tiles
          /\ ~(pc = "generate" /\ pc' = "solve")]_vars

\* generate has returned from inside the loop: it found a record and had no room for it.
GenerateDropped == pc = "generate_done" /\ InLoop(g_slot)

\* C11: for every max_puzzles, 0 included, the count generate returns is <= max_puzzles,
\* the records stored are at the indices 0 .. count - 1, and no index >= max_puzzles is
\* ever written.
C11_GenerateStaysWithinCapacity ==
    /\ puzzle_i <= max_puzzles
    /\ DOMAIN puzzles = 0 .. (puzzle_i - 1)
    /\ \A k \in DOMAIN puzzles : 0 <= k /\ k < max_puzzles

C11_Witness ==
    /\ GenerateDropped
    /\ max_puzzles = 1
    /\ puzzle_i = 1
    /\ DOMAIN puzzles = {0}

\* solve has returned having counted more grids than the caller's array holds.
SolveDropped == pc = "solve_done" /\ Len(found) > max_solutions

\* What a run of capacity max that drops nothing can return: the number of its results,
\* every one of them stored, so a number of 0 .. max (solve returns solution_i when its
\* loop ends, generate returns puzzle_i when its loop ends).
CompleteReturns(max) == 0 .. max

\* The half of C12 that is about solve: its returned count is beyond the capacity
\* exactly when it dropped a grid.
SolveSignalsTruncation ==
    pc = "solve_done" => (SolveDropped <=> solution_i \notin CompleteReturns(max_solutions))

\* C12: when solve or generate finds more results than the caller's capacity, the value
\* it returns differs from every value a run of the same capacity that drops nothing
\* can return.
C12_TruncationHasDistinctReturn ==
    /\ SolveDropped => solution_i \notin CompleteReturns(max_solutions)
    /\ GenerateDropped => puzzle_i \notin CompleteReturns(max_puzzles)

\* C20: throughout generate, the tile tags and the three bit sets agree: for every cell
\* i, puzzle_tiles[i] is WALL iff bit i of solution is set, MONSTER iff bit i of
\* puzzle.monsters is set, TREASURE iff bit i of puzzle.treasures is set; the three sets
\* are pairwise disjoint; and every cell after the cursor is EMPTY with none of the
\* three bits set.
C20_TilesAgreeWithBitSets ==
    /\ \A i \in Slots :
          /\ puzzle_tiles[i] = WALL <=> slot_is_set(g_solution, i)
          /\ puzzle_tiles[i] = MONSTER <=> slot_is_set(g_puzzle.monsters, i)
          /\ puzzle_tiles[i] = TREASURE <=> slot_is_set(g_puzzle.treasures, i)
          /\ i > g_slot =>
                /\ puzzle_tiles[i] = EMPTY
                /\ i \notin g_solution \cup g_puzzle.monsters \cup g_puzzle.treasures
    /\ g_solution \cap g_puzzle.monsters = {}
    /\ g_solution \cap g_puzzle.treasures = {}
    /\ g_puzzle.monsters \cap g_puzzle.treasures = {}

\* The head of an iteration before the last slot, with walls, a monster and treasures
\* placed, and the tile at the cursor already a wall: the search has backtracked to it.
C20_Witness ==
    /\ pc = "generate"
    /\ g_slot < LastSlot
    /\ puzzle_tiles[g_slot] = WALL
    /\ \E i \in Slots : puzzle_tiles[i] = MONSTER
    /\ \E i \in Slots : puzzle_tiles[i] = TREASURE

\* The cells of the last row and of the last column.
EdgeCells == {c \in Slots : RowOf(c) = 7 \/ ColOf(c) = 7}

\* The monsters generate has placed and moved past.
AcceptedMonsters == {m \in g_puzzle.monsters : m < g_slot}

\* C21: every monster of every record generate emits lies in row 7 or in column 7: a
\* monster is checked at its own slot while the cells to its right and below it are open,
\* so no monster with row < 7 and column < 7 is ever moved past, none is in a record
\* given to solve, and none is in a record stored.
C21_MonstersOnLastRowOrColumn ==
    /\ AcceptedMonsters \subseteq EdgeCells
    /\ (caller = "generate" /\ pc \in {"solve", "generate_ret"}) =>
          (g_puzzle.monsters \subseteq EdgeCells /\ puzzle.monsters = g_puzzle.monsters)
    /\ \A k \in DOMAIN puzzles : puzzles[k].puzzle.monsters \subseteq EdgeCells

\* A monster has passed the check at its own slot and generate has moved past it.
C21_Witness ==
    /\ pc = "generate"
    /\ AcceptedMonsters # {}
    /\ \E m \in Slots \ EdgeCells : puzzle_tiles[m] = TREASURE

(***************************************************************************)
(* The claims about puzzle() and the grid operations.                      *)
(***************************************************************************)

\* C13: for every PuzzleArgs that puzzle() accepts, the monster grid and the treasure
\* grid of the record it returns share no cell.
C13_MonstersAndTreasuresDisjoint ==
    pc = "puzzle_done" => puzzle.monsters \cap puzzle.treasures = {}

\* C14: with a slot outside 0..63, slot_set and slot_unset return the grid unchanged and
\* slot_is_set returns 0; with a row or a column outside 0..7, pos_set and pos_unset
\* return the grid unchanged and pos_is_set returns 0; and for a slot s of 0..63 the
\* operations on the position pos_from_slot(s) return what the operations on s return.
C14_OutOfRangeNeutralAndAddressingsAgree ==
    pc = "grid_done" =>
        /\ slot \notin 0 .. 63 =>
              /\ result.slot_set = solution
              /\ result.slot_unset = solution
              /\ result.slot_is_set = {}
        /\ (checked.row \notin 0 .. 7 \/ checked.col \notin 0 .. 7) =>
              /\ result.pos_set = solution
              /\ result.pos_unset = solution
              /\ result.pos_is_set = {}
        /\ (slot \in 0 .. 63 /\ checked = result.pos_from_slot) =>
              /\ result.pos_set = result.slot_set
              /\ result.pos_unset = result.slot_unset
              /\ result.pos_is_set = result.slot_is_set

\* A position off the board whose index 0 * 8 + 8 is a slot of the board, a slot beyond
\* the board, and a grid on which a set or an unset would show.
C14_Witness ==
    /\ pc = "grid_done"
    /\ slot = NumSlots
    /\ checked = Pos(0, Dim)
    /\ solution = {i \in Slots : i % 2 = 0}
    /\ result.pos_set = solution
    /\ result.slot_unset = solution

====
